---- MODULE Spec2Model ----
(***************************************************************************)
(* Model of the synchronisation and access-control layer of arborlabs:     *)
(*   - createCRUDRoutes (the MutationGateway and the ChangeFeedProxy),     *)
(*   - the resources registered in routes/api/$.ts (todos, collections,    *)
(*     nodes) and the "projects" resource of the CRUDConfig documentation, *)
(*   - the Store (tables, identity sequences, transaction ids) and the     *)
(*     upstream change feed the gateway talks to,                          *)
(*   - the client's synced collection of todos (lib/collections.ts) and    *)
(*     the page functions that mutate it (routes/_authenticated).          *)
(***************************************************************************)
EXTENDS Integers, Sequences, FiniteSets, TLC

VARIABLES
  config,    \* the resource this router was created for (createCRUDRoutes(config))
  store,     \* table name -> set of rows (a row is a function column -> value)
  nextId,    \* table name -> next value of the identity sequence
  xid,       \* last transaction identifier the Store has assigned
  wal,       \* committed row changes the change feed has not emitted yet
  emitted,   \* the change events the feed emitted last (at most one)
  last,      \* outcome of the last create / update / delete call
  lastGet,   \* outcome of the last subscription (GET) call
  todoCollection, \* the client's synced collection of todos (lib/collections.ts)
  calls,     \* client -> the call of that client whose Store transaction is open
  frame      \* the upstream response of the last subscription call and the response made of it

vars == <<config, store, nextId, xid, wal, emitted, last, lastGet, todoCollection, calls,
          frame>>

----------------------------------------------------------------------------
(* Bounds of the model                                                     *)

MaxTx == 2       \* the Store assigns at most this many transaction ids
MaxParams == 2   \* a subscription request carries at most this many query parameters

----------------------------------------------------------------------------
(* Sessions                                                                *)

Users == {"u1", "u2"}

OrgOf(u) == "o1"
TeamOf(u) == IF u = "u1" THEN "t1" ELSE "t2"
RoleOf(u) == IF u = "u1" THEN "admin" ELSE "member"

SessionOf(u) ==
  [user |-> [id |-> u, org_id |-> OrgOf(u), team_id |-> TeamOf(u), role |-> RoleOf(u)]]

\* auth.api.getSession() resolving to null
NullSession == [user |-> [id |-> "", org_id |-> "", team_id |-> "", role |-> ""]]

Sessions == {NullSession} \cup {SessionOf(u) : u \in Users}

----------------------------------------------------------------------------
(* Tables                                                                  *)

Resources == {"todos", "collections", "projects"}

TableOf(res) ==
  CASE res = "todos" -> "todos"
    [] res = "collections" -> "collection"
    [] res = "nodes" -> "node"
    [] res = "projects" -> "projects"

Tables == {"todos", "collection", "node", "projects"}

\* metadata and the timestamps take no part in any decision of the gateway and
\* are left out of the rows.
Columns(table) ==
  CASE table = "todos" -> {"id", "text", "completed", "user_id"}
    [] table = "collection" -> {"id", "name", "user_id"}
    [] table = "node" -> {"id", "name", "parentId", "collectionId"}
    [] table = "projects" -> {"id", "org_id", "team_id"}

\* columns of the create shape that have no default
Required(table) ==
  CASE table = "todos" -> {"text", "user_id"}
    [] table = "collection" -> {"name", "user_id"}
    [] table = "node" -> {"name", "collectionId"}
    [] table = "projects" -> {"org_id", "team_id"}

\* varchar({ length: 500 }) and varchar("name", { length: 255 }); a text is
\* modelled by its length
MaxTextLen == 500
MaxNameLen == 255

\* completed: boolean().notNull().default(false); parent_id is nullable, and
\* the NULL of that integer column is written 0 (no identity is 0)
Default(table, col) ==
  CASE col = "completed" -> FALSE [] col = "parentId" -> 0 [] OTHER -> "null"

\* values a client can put under a key of a JSON payload
JsonValues(table, col) ==
  CASE col = "id" -> {1}
    [] col = "user_id" -> Users \cup {"nobody"}
    [] col = "text" -> {1, MaxTextLen + 1}
    [] col = "completed" -> {TRUE, FALSE}
    [] col = "name" -> IF table = "node" THEN {1} ELSE {1, MaxNameLen + 1}
    [] col = "org_id" -> {"o1", "o2"}
    [] col = "team_id" -> {"t1", "t2"}
    [] col = "parentId" -> {1, 2}
    [] col = "collectionId" -> {1, 2}

\* every JSON object over the given keys of the table
RECURSIVE JsonsOver(_, _)
JsonsOver(table, keys) ==
  IF keys = {} THEN {<<>>}
  ELSE LET k == CHOOSE c \in keys : TRUE
           rest == JsonsOver(table, keys \ {k})
       IN  rest \cup {(k :> v) @@ j : j \in rest, v \in JsonValues(table, k)}

\* user_id references users.id
ForeignKeysHold(table, row) ==
  "user_id" \in Columns(table) => row["user_id"] \in Users

\* collection_id references collection.id and parent_id references node.id
\* (node_parent_fk); the Store checks a reference when the statement ends,
\* against the rows the table holds then
ReferencesHold(st, table, rows, row) ==
  table = "node" =>
    /\ \E c \in st["collection"] : c["id"] = row["collectionId"]
    /\ row["parentId"] # 0 => \E n \in rows : n["id"] = row["parentId"]

----------------------------------------------------------------------------
(* db/schema.ts: the validation shapes                                     *)

\* drizzle-zod leaves the generated identity column out of the insert and
\* update shapes; zod strips the keys a shape does not name.
ShapeKeys(table) == Columns(table) \ {"id"}

\* the keys of the JSON payloads enumerated for a call made to the gateway
\* directly (no id, as in lib/collections.ts; completed, which no decision of
\* the gateway looks at, keeps its default there)
JsonKeys(table) == ShapeKeys(table) \ {"completed"}

Strip(table, json) == [c \in DOMAIN json \cap ShapeKeys(table) |-> json[c]]

\* updateNodeSchema names no collectionId
UpdateKeys(table) ==
  IF table = "node" THEN ShapeKeys(table) \ {"collectionId"} ELSE ShapeKeys(table)

StripUpdate(table, json) == [c \in DOMAIN json \cap UpdateKeys(table) |-> json[c]]

Jsons(table) == JsonsOver(table, JsonKeys(table))

\* the JSON payloads enumerated for an update
UpdateJsons(table) == JsonsOver(table, JsonKeys(table) \cap UpdateKeys(table))

WellTyped(table, json) ==
  /\ "text" \in DOMAIN json => json["text"] <= MaxTextLen
  /\ "name" \in DOMAIN json => json["name"] <= MaxNameLen

createSchema(table, json) ==
  Required(table) \subseteq DOMAIN json /\ WellTyped(table, json)

updateSchema(table, json) == WellTyped(table, json)

----------------------------------------------------------------------------
(* drizzle conditions: a conjunction of column comparisons, or undefined   *)

Undefined == [defined |-> FALSE, atoms |-> <<>>]

eq(table, column, value) ==
  [defined |-> TRUE, atoms |-> <<[table |-> table, column |-> column, value |-> value]>>]

\* and(...) leaves undefined operands out and is undefined when none is left
and(a, b) ==
  IF ~a.defined /\ ~b.defined THEN Undefined
  ELSE [defined |-> TRUE, atoms |-> a.atoms \o b.atoms]

\* js: x || y
OrElse(x, y) == IF x.defined THEN x ELSE y

\* the rows of a table a WHERE condition selects
Matches(table, cond, row) ==
  \A i \in 1..Len(cond.atoms) :
    /\ cond.atoms[i].table = table
    /\ row[cond.atoms[i].column] = cond.atoms[i].value

\* a statement on one table can name the columns of that table only: a
\* condition on a column of another table makes the Store refuse the statement
InScope(table, cond) == \A i \in 1..Len(cond.atoms) : cond.atoms[i].table = table

----------------------------------------------------------------------------
(* routes/api/$.ts and the CRUDConfig example: the registered resources    *)

True == [kind |-> "true", sql |-> Undefined, message |-> ""]
Sql(cond) == [kind |-> "sql", sql |-> cond, message |-> ""]
Throw(msg) == [kind |-> "throw", sql |-> Undefined, message |-> msg]

HasSyncFilter(res) == res \in {"todos", "collections", "projects"}

syncFilter(res, session) ==
  IF res = "projects" THEN "org_id = '" \o session.user.org_id \o "'"
  ELSE "user_id = '" \o session.user.id \o "'"

accessCreate(res, session, data) ==
  IF res = "projects" /\ session.user.org_id # data["org_id"]
  THEN Throw("Can only create projects in your organization")
  ELSE True


\* variant: every session may update every row
accessUpdateAll(res, session, id, data) == True

accessUpdate(res, session, id, data) ==
  CASE res = "todos" -> Sql(eq("todos", "user_id", session.user.id))
    [] res = "collections" -> Sql(eq("collection", "user_id", session.user.id))
    [] res = "nodes" -> Sql(eq("collection", "user_id", session.user.id))
    [] res = "projects" ->
         Sql(and(eq("projects", "org_id", session.user.org_id),
                 eq("projects", "team_id", session.user.team_id)))

accessDelete(res, session, id) ==
  CASE res = "todos" -> Sql(eq("todos", "user_id", session.user.id))
    [] res = "collections" -> Sql(eq("collection", "user_id", session.user.id))
    [] res = "nodes" -> Sql(eq("collection", "user_id", session.user.id))
    [] res = "projects" ->
         IF session.user.role # "admin"
         THEN Throw("Only admins can delete projects")
         ELSE Sql(eq("projects", "org_id", session.user.org_id))

----------------------------------------------------------------------------
(* createCRUDRoutes: the Store transaction of a create / update / delete   *)

Digit(d) ==
  CASE d = 0 -> "0" [] d = 1 -> "1" [] d = 2 -> "2" [] d = 3 -> "3" [] d = 4 -> "4"
    [] d = 5 -> "5" [] d = 6 -> "6" [] d = 7 -> "7" [] d = 8 -> "8" [] d = 9 -> "9"

\* js: String(n) of a non-negative integer
RECURSIVE String(_)
String(n) == IF n < 10 THEN Digit(n) ELSE String(n \div 10) \o Digit(n % 10)

\* SELECT txid_current() on a connection whose transaction has identifier x
generateTxId(x) == String(x)


\* variant: the txid is selected on the pool, outside the transaction
TxidOnPool == "db"

\* the connection a statement is issued on: "tx" is the transaction opened by
\* db.transaction, "db" is the pool (a transaction of its own per statement)
TxidOn == "tx"
\* variant: the write is issued on the pool, outside the transaction
WriteOnPool == "db"

WriteOn == "tx"

\* what the Store may do to a statement besides executing it
Faults == {"none", "txid"}

NewRow(table, id, body) ==
  [c \in Columns(table) |->
     IF c = "id" THEN id ELSE IF c \in DOMAIN body THEN body[c] ELSE Default(table, c)]

SetRow(row, body) ==
  [c \in DOMAIN row |-> IF c \in DOMAIN body THEN body[c] ELSE row[c]]

Event(table, operation, row, x) ==
  [table |-> table, key |-> row["id"], operation |-> operation, row |-> row, txid |-> x]

\* a node row references its collection, and its parent, with ON DELETE RESTRICT
Restricted(st, table, row) ==
  \/ table = "collection" /\ \E n \in st["node"] : n["collectionId"] = row["id"]
  \/ table = "node" /\ \E n \in st["node"] \ {row} : n["parentId"] = row["id"]

\* The rows a write statement produces: [ok, rows (the table afterwards),
\* returning (the rows of the RETURNING clause), operation, useId]

\* variant: the identity is one more than the largest identity in the table
insertAfterLargest(st, ids, table, body) ==
  LET used == {r["id"] : r \in st[table]}
      id == IF used = {} THEN 1 ELSE 1 + CHOOSE m \in used : \A u \in used : u <= m
      row == NewRow(table, id, body)
  IN  [ok |-> ForeignKeysHold(table, row), rows |-> st[table] \cup {row},
       returning |-> {row}, operation |-> "insert", useId |-> TRUE]

insert(st, ids, table, body) ==
  LET row == NewRow(table, ids[table], body)
      ok == /\ ForeignKeysHold(table, row)
            /\ ReferencesHold(st, table, st[table] \cup {row}, row)
  IN  [ok |-> ok, rows |-> st[table] \cup {row}, returning |-> {row},
       operation |-> "insert", useId |-> TRUE]

update(st, ids, table, cond, body) ==
  LET hit == {r \in st[table] : Matches(table, cond, r)}
      new == {SetRow(r, body) : r \in hit}
      ok == /\ DOMAIN body # {}
            /\ InScope(table, cond)
            /\ \A r \in new : /\ ForeignKeysHold(table, r)
                              /\ ReferencesHold(st, table, (st[table] \ hit) \cup new, r)
  IN  [ok |-> ok, rows |-> (st[table] \ hit) \cup new, returning |-> new,
       operation |-> "update", useId |-> FALSE]


\* variant: the statement returns the rows it matches and removes none
deleteKeepsRows(st, ids, table, cond) ==
  LET hit == {r \in st[table] : Matches(table, cond, r)}
  IN  [ok |-> TRUE, rows |-> st[table], returning |-> hit,
       operation |-> "delete", useId |-> FALSE]

delete(st, ids, table, cond) ==
  LET hit == {r \in st[table] : Matches(table, cond, r)}
      ok == InScope(table, cond) /\ \A r \in hit : ~Restricted(st, table, r)
  IN  [ok |-> ok, rows |-> st[table] \ hit, returning |-> hit,
       operation |-> "delete", useId |-> FALSE]

\* db.transaction(async (tx) => { txid = generateTxId(..); write; return {item, txid} }).
\* x0 is the last identifier the Store assigned, w the outcome of the write
\* statement.  The identifier is assigned when the first statement of a
\* transaction runs; a failing statement rejects the callback and the
\* transaction rolls back.
transaction(x0, w, fault) ==
  LET readXid == x0 + 1
      writeXid == IF TxidOn = "tx" /\ WriteOn = "tx" THEN readXid ELSE readXid + 1
      readOk == fault # "txid"
      attempted == readOk /\ fault # "write"
      ok == attempted /\ w.ok
  IN  [ok |-> ok,
       txid |-> IF ok THEN generateTxId(readXid) ELSE "",
       returning |-> IF ok THEN w.returning ELSE {},
       rows |-> w.rows,
       operation |-> w.operation,
       useId |-> attempted /\ w.useId,
       xid |-> IF ~readOk THEN x0 ELSE IF attempted THEN writeXid ELSE readXid,
       opened |-> 1 + (IF TxidOn = "db" THEN 1 ELSE 0)
                    + (IF attempted /\ WriteOn = "db" THEN 1 ELSE 0),
       readIn |-> IF readOk THEN readXid ELSE 0,
       wroteIn |-> IF ok THEN writeXid ELSE 0]

\* a call that returns before db.transaction
NoTransaction(x0) ==
  [ok |-> FALSE, txid |-> "", returning |-> {}, rows |-> {}, operation |-> "none",
   useId |-> FALSE, xid |-> x0, opened |-> 0, readIn |-> 0, wroteIn |-> 0]

----------------------------------------------------------------------------
(* createCRUDRoutes: the POST, PUT and DELETE handlers                     *)

OK == 200
UNAUTHORIZED == 401
FORBIDDEN == 403
NOT_FOUND == 404
UNPROCESSABLE_ENTITY == 422
INTERNAL_SERVER_ERROR == 500

Answer(status, message, t) == [status |-> status, message |-> message, t |-> t]


\* variant: the access filter is dropped in favour of the identity condition
whereConditionIdOnly(table, id, accessResult) == eq(table, "id", id)

\* whereCondition of the PUT and DELETE handlers
whereCondition(table, id, accessResult) ==
  IF accessResult.kind # "true"
  THEN OrElse(and(eq(table, "id", id), accessResult.sql), eq(table, "id", id))
  ELSE eq(table, "id", id)


\* variant: the answer does not look at the returned item
foundAnyway(t) ==
  IF ~t.ok THEN Answer(INTERNAL_SERVER_ERROR, "Internal Server Error", t)
  ELSE Answer(OK, "", t)

\* answer after the transaction of a PUT or DELETE
found(t) ==
  IF ~t.ok THEN Answer(INTERNAL_SERVER_ERROR, "Internal Server Error", t)
  ELSE IF t.returning = {} THEN Answer(NOT_FOUND, "Item not found", t)
  ELSE Answer(OK, "", t)


\* variant: the transaction runs before the session is looked at
postHandlerTxFirst(st, ids, x0, session, res, json, fault) ==
  LET table == TableOf(res)
      body == Strip(table, json)
      t == transaction(x0, insert(st, ids, table, body), fault)
  IN  IF ~createSchema(table, body)
        THEN Answer(UNPROCESSABLE_ENTITY, "validation", NoTransaction(x0))
      ELSE IF session = NullSession THEN Answer(UNAUTHORIZED, "Unauthorized", t)
      ELSE IF accessCreate(res, session, body).kind = "throw"
        THEN Answer(FORBIDDEN, accessCreate(res, session, body).message, NoTransaction(x0))
      ELSE IF ~t.ok THEN Answer(INTERNAL_SERVER_ERROR, "Internal Server Error", t)
      ELSE Answer(OK, "", t)

postHandler(st, ids, x0, session, res, json, fault) ==
  LET table == TableOf(res)
      body == Strip(table, json)
      accessResult == accessCreate(res, session, body)
      t == transaction(x0, insert(st, ids, table, body), fault)
  IN  IF ~createSchema(table, body)
        THEN Answer(UNPROCESSABLE_ENTITY, "validation", NoTransaction(x0))
      ELSE IF session = NullSession
        THEN Answer(UNAUTHORIZED, "Unauthorized", NoTransaction(x0))
      ELSE IF accessResult.kind = "throw"
        THEN Answer(FORBIDDEN, accessResult.message, NoTransaction(x0))
      ELSE IF ~t.ok THEN Answer(INTERNAL_SERVER_ERROR, "Internal Server Error", t)
      ELSE Answer(OK, "", t)

putHandler(st, ids, x0, session, res, id, json, fault) ==
  LET table == TableOf(res)
      body == StripUpdate(table, json)
      accessResult == accessUpdate(res, session, id, body)
      cond == whereCondition(table, id, accessResult)
      t == transaction(x0, update(st, ids, table, cond, body), fault)
  IN  IF ~updateSchema(table, body)
        THEN Answer(UNPROCESSABLE_ENTITY, "validation", NoTransaction(x0))
      ELSE IF session = NullSession
        THEN Answer(UNAUTHORIZED, "Unauthorized", NoTransaction(x0))
      ELSE IF accessResult.kind = "throw"
        THEN Answer(FORBIDDEN, accessResult.message, NoTransaction(x0))
      ELSE found(t)


\* variant: a raising predicate is swallowed and the delete goes on
deleteHandlerSwallow(st, ids, x0, session, res, id, fault) ==
  LET table == TableOf(res)
      t == transaction(x0, delete(st, ids, table, eq(table, "id", id)), fault)
  IN  IF session = NullSession
        THEN Answer(UNAUTHORIZED, "Unauthorized", NoTransaction(x0))
      ELSE found(t)

deleteHandler(st, ids, x0, session, res, id, fault) ==
  LET table == TableOf(res)
      accessResult == accessDelete(res, session, id)
      cond == whereCondition(table, id, accessResult)
      t == transaction(x0, delete(st, ids, table, cond), fault)
  IN  IF session = NullSession
        THEN Answer(UNAUTHORIZED, "Unauthorized", NoTransaction(x0))
      ELSE IF accessResult.kind = "throw"
        THEN Answer(FORBIDDEN, accessResult.message, NoTransaction(x0))
      ELSE found(t)

----------------------------------------------------------------------------
(* createCRUDRoutes: the GET handler (the change-feed proxy)               *)

\* the query parameters a client may name, and the values it may give them
ParamKeys == {"table", "offset", "where", "user_id"}
ParamValues == {"todos", "user_id = 'u2'"}

RECURSIVE SeqsUpTo(_, _)
SeqsUpTo(S, n) ==
  IF n = 0 THEN {<<>>}
  ELSE LET shorter == SeqsUpTo(S, n - 1)
       IN  shorter \cup {Append(q, x) : q \in {p \in shorter : Len(p) = n - 1}, x \in S}

\* URLSearchParams.set on the parameters of a URL (key -> value)
set(params, k, v) == [x \in DOMAIN params \cup {k} |-> IF x = k THEN v ELSE params[x]]


\* variant: the allow-list also lets the where parameter through
AllowListWhere == {"live", "table", "handle", "offset", "cursor", "where"}

AllowList == {"live", "table", "handle", "offset", "cursor"}

\* url.searchParams.forEach(...) over the first n parameters of the request
RECURSIVE forward(_, _)
forward(client, n) ==
  IF n = 0 THEN <<>>
  ELSE LET origin == forward(client, n - 1)
       IN  IF client[n].key \in AllowList
           THEN set(origin, client[n].key, client[n].value)
           ELSE origin


\* variant: a where parameter of the client takes precedence over the filter
originUrlClientWhere(res, session, client) ==
  LET origin == forward(client, Len(client))
      asked == {i \in 1..Len(client) : client[i].key = "where"}
  IN  IF asked # {} THEN set(origin, "where", client[CHOOSE i \in asked : TRUE].value)
      ELSE IF HasSyncFilter(res) THEN set(origin, "where", syncFilter(res, session))
      ELSE origin

\* the query of the request sent upstream
originUrl(res, session, client) ==
  LET origin == forward(client, Len(client))
  IN  IF HasSyncFilter(res) THEN set(origin, "where", syncFilter(res, session)) ELSE origin

\* The upstream change feed: the rows of the requested table that satisfy the
\* where parameter (a comparison column = 'value'); a request it cannot serve
\* is answered 400.
WhereColumns == {"user_id", "org_id"}
WhereValues == Users \cup {"o1", "o2"}

ParseWhere(w) ==
  {a \in [column : WhereColumns, value : WhereValues] :
     w = a.column \o " = '" \o a.value \o "'"}

shape(st, origin) ==
  LET table == origin["table"]
      parsed == IF "where" \in DOMAIN origin THEN ParseWhere(origin["where"]) ELSE {}
      bad == \/ "table" \notin DOMAIN origin
             \/ table \notin Tables
             \/ "where" \in DOMAIN origin
                  /\ (parsed = {} \/ \E a \in parsed : a.column \notin Columns(table))
  IN  IF bad THEN [status |-> 400, rows |-> {}]
      ELSE [status |-> OK,
            rows |-> {r \in st[table] : \A a \in parsed : r[a.column] = a.value}]


\* variant: the upstream request is sent before the session is looked at
getHandlerFetchFirst(st, session, res, client) ==
  LET origin == originUrl(res, session, client)
      response == shape(st, origin)
  IN  [res |-> res, user |-> session.user.id,
       status |-> IF session = NullSession THEN UNAUTHORIZED ELSE response.status,
       client |-> client, origin |-> origin, fetched |-> TRUE,
       rows |-> IF session = NullSession THEN {} ELSE response.rows]

getHandler(st, session, res, client) ==
  LET origin == originUrl(res, session, client)
      response == shape(st, origin)
  IN  IF session = NullSession
      THEN [res |-> res, user |-> session.user.id, status |-> UNAUTHORIZED, client |-> client,
            origin |-> <<>>, fetched |-> FALSE, rows |-> {}]
      ELSE [res |-> res, user |-> session.user.id, status |-> response.status,
            client |-> client, origin |-> origin, fetched |-> TRUE,
            rows |-> response.rows]

\* The frame of a response: status, status text, headers (name -> value)
\* and body (the rows it carries)
NoFrame ==
  [upstream |-> [status |-> 0, statusText |-> "", headers |-> <<>>, body |-> {}],
   response |-> [status |-> 0, statusText |-> "", headers |-> <<>>, body |-> {}]]

\* the headers an upstream response may carry, and the value of each
HeaderNames == {"content-type", "content-encoding", "content-length", "electric-offset"}

HeaderValue(h) ==
  CASE h = "content-type" -> "application/json"
    [] h = "content-encoding" -> "gzip"
    [] h = "content-length" -> "17"
    [] h = "electric-offset" -> "0_0"

\* what the upstream service may answer besides status and body
Upstreams ==
  [statusText : {"OK", ""},
   headers : {[h \in S |-> HeaderValue(h)] : S \in SUBSET HeaderNames}]

PlainUpstream == [statusText |-> "OK", headers |-> ("content-type" :> "application/json")]

\* const response = await fetch(originUrl)
fetch(st, origin, up) ==
  [status |-> shape(st, origin).status, statusText |-> up.statusText,
   headers |-> up.headers, body |-> shape(st, origin).rows]

\* headers.delete(name)
deleteHeader(headers, name) == [h \in DOMAIN headers \ {name} |-> headers[h]]


\* variant: only content-encoding is removed
proxiedKeepsLength(response) ==
  [status |-> response.status, statusText |-> response.statusText,
   headers |-> deleteHeader(response.headers, "content-encoding"),
   body |-> response.body]

\* new Response(response.body, { status, statusText, headers })
proxied(response) ==
  [status |-> response.status, statusText |-> response.statusText,
   headers |-> deleteHeader(deleteHeader(response.headers, "content-encoding"),
                            "content-length"),
   body |-> response.body]

\* c.json({ error: "Unauthorized" }, 401)
unauthorized ==
  [status |-> UNAUTHORIZED, statusText |-> "",
   headers |-> ("content-type" :> "application/json"), body |-> {}]

----------------------------------------------------------------------------
(* The state machine of the gateway and the Store                          *)

RECURSIVE SetToSeq(_)
SetToSeq(S) ==
  IF S = {} THEN <<>>
  ELSE LET r == CHOOSE r \in S : TRUE IN <<r>> \o SetToSeq(S \ {r})

NoCall ==
  [op |-> "none", res |-> "none", user |-> "", id |-> 0, status |-> 0, message |-> "",
   txid |-> "", item |-> {}, opened |-> 0, readIn |-> 0, wroteIn |-> 0]

NoGet ==
  [res |-> "none", user |-> "", status |-> 0, client |-> <<>>, origin |-> <<>>,
   fetched |-> FALSE, rows |-> {}]

\* the clients whose calls are followed through their Store transaction
Clients == {"a", "b"}

\* no transaction is open for a client
NoOpen ==
  [op |-> "none", user |-> "", table |-> "none", id |-> 0, body |-> <<>>,
   cond |-> Undefined, xid |-> 0, passed |-> FALSE]

NoCalls == [k \in Clients |-> NoOpen]

\* the collection as createCollection(...) leaves it
NoCollection ==
  [status |-> "idle", subscriptions |-> 0, waiting |-> 0, returned |-> 0,
   origin |-> <<>>, synced |-> {}, local |-> {}, pending |-> <<>>,
   submitted |-> 0, errors |-> 0, overtaken |-> 0]

Init ==
  /\ config \in Resources
  /\ store = [t \in Tables |-> {}]
  /\ nextId = [t \in Tables |-> 1]
  /\ xid = 0
  /\ wal = <<>>
  /\ emitted = {}
  /\ last = NoCall
  /\ lastGet = NoGet
  /\ todoCollection = NoCollection
  /\ calls = NoCalls
  /\ frame = NoFrame

\* the effect of a handler that answered a: the Store after the call, the
\* committed changes handed to the change feed, and the response
Commit(op, res, session, id, a) ==
  LET table == TableOf(res)
      t == a.t
      \* reply records, with each change, the txid answered to its caller
      changes == {Event(table, t.operation, r, t.wroteIn) @@ [reply |-> t.txid] :
                    r \in t.returning}
  IN  /\ t.opened > 0 => xid < MaxTx
      /\ store' = IF t.ok THEN [store EXCEPT ![table] = t.rows] ELSE store
      /\ nextId' = IF t.useId THEN [nextId EXCEPT ![table] = @ + 1] ELSE nextId
      /\ xid' = t.xid
      /\ wal' = wal \o SetToSeq(changes)
      /\ last' = [op |-> op, res |-> res, user |-> session.user.id, id |-> id,
                  status |-> a.status, message |-> a.message,
                  txid |-> IF a.status = OK THEN t.txid ELSE "",
                  item |-> IF a.status = OK THEN t.returning ELSE {},
                  opened |-> t.opened, readIn |-> t.readIn, wroteIn |-> t.wroteIn]

\* a call made to the gateway directly
Respond(op, res, session, id, a) ==
  /\ Commit(op, res, session, id, a)
  /\ UNCHANGED <<config, emitted, lastGet, todoCollection, calls, frame>>

Post(session, json, fault) ==
  Respond("POST", config, session, 0,
          postHandler(store, nextId, xid, session, config, json, fault))

Put(session, id, json, fault) ==
  Respond("PUT", config, session, id,
          putHandler(store, nextId, xid, session, config, id, json, fault))

Delete(session, id, fault) ==
  Respond("DELETE", config, session, id,
          deleteHandler(store, nextId, xid, session, config, id, fault))

\* the change feed emits the oldest committed change it has not emitted yet
FeedEmit ==
  /\ wal # <<>>
  /\ emitted' = {Head(wal)}
  /\ wal' = Tail(wal)
  /\ UNCHANGED <<config, store, nextId, xid, last, lastGet, todoCollection, calls, frame>>

\* the identities a client can name: those issued so far and the next one
Ids == 1..nextId[TableOf(config)]

Next ==
  \/ \E s \in Sessions, f \in Faults, j \in Jsons(TableOf(config)) : Post(s, j, f)
  \/ \E s \in Sessions, f \in Faults, id \in Ids, j \in UpdateJsons(TableOf(config)) :
       Put(s, id, j, f)
  \/ \E s \in Sessions, f \in Faults, id \in Ids : Delete(s, id, f)
  \/ FeedEmit

Spec == Init /\ [][Next]_vars

----------------------------------------------------------------------------
(* The state machine of the change-feed proxy: subscription requests to a  *)
(* router whose Store already holds rows of both users                     *)

\* a subscription call whose upstream response has the frame up
GetFramed(session, client, up) ==
  /\ lastGet' = getHandler(store, session, config, client)
  /\ frame' = IF session = NullSession
              THEN [upstream |-> NoFrame.upstream, response |-> unauthorized]
              ELSE LET response == fetch(store, originUrl(config, session, client), up)
                   IN  [upstream |-> response, response |-> proxied(response)]
  /\ UNCHANGED <<config, store, nextId, xid, wal, emitted, last, todoCollection, calls>>

Get(session, client) == GetFramed(session, client, PlainUpstream)

Owned(table, id, u) == NewRow(table, id, ("user_id" :> u) @@ ("text" :> 1) @@ ("name" :> 1))

InitProxy ==
  /\ config \in Resources \cup {"nodes"}
  /\ store = [t \in Tables |->
                CASE t \in {"todos", "collection"} -> {Owned(t, 1, "u1"), Owned(t, 2, "u2")}
                  [] t = "projects" ->
                       {NewRow(t, 1, ("org_id" :> "o1") @@ ("team_id" :> "t1")),
                        NewRow(t, 2, ("org_id" :> "o2") @@ ("team_id" :> "t1"))}
                  [] OTHER -> {}]
  /\ nextId = [t \in Tables |-> IF t = "node" THEN 1 ELSE 3]
  /\ xid = 6
  /\ wal = <<>>
  /\ emitted = {}
  /\ last = NoCall
  /\ lastGet = NoGet
  /\ todoCollection = NoCollection
  /\ calls = NoCalls
  /\ frame = NoFrame

NextProxy ==
  \E s \in Sessions, client \in SeqsUpTo([key : ParamKeys, value : ParamValues], MaxParams) :
    Get(s, client)

SpecProxy == InitProxy /\ [][NextProxy]_vars

\* subscription requests of at most one parameter, answered upstream with
\* every frame
NextFrame ==
  \E s \in Sessions, client \in SeqsUpTo([key : ParamKeys, value : ParamValues], 1),
     up \in Upstreams :
    GetFramed(s, client, up)

SpecFrame == InitProxy /\ [][NextFrame]_vars

----------------------------------------------------------------------------
(* The gateway in front of a Store that already holds rows of both users.  *)
(* Transaction identifiers are counted from the last one the Store had     *)
(* assigned when the router started.                                       *)

InitStored ==
  /\ config \in {"todos", "projects"}
  /\ store = [t \in Tables |->
                CASE t \in {"todos", "collection"} -> {Owned(t, 1, "u1")}
                  [] t = "projects" ->
                       {NewRow(t, 1, ("org_id" :> "o1") @@ ("team_id" :> "t1"))}
                  [] OTHER -> {}]
  /\ nextId = [t \in Tables |-> IF t = "node" THEN 1 ELSE 2]
  /\ xid = 0
  /\ wal = <<>>
  /\ emitted = {}
  /\ last = NoCall
  /\ lastGet = NoGet
  /\ todoCollection = NoCollection
  /\ calls = NoCalls
  /\ frame = NoFrame

SpecStored == InitStored /\ [][Next]_vars

----------------------------------------------------------------------------
(* The router of the nodes resource in front of a Store that holds one     *)
(* collection of each user and one node in the collection of u1            *)

InitNodes ==
  /\ config = "nodes"
  /\ store = [t \in Tables |->
                CASE t = "collection" -> {Owned(t, 1, "u1"), Owned(t, 2, "u2")}
                  [] t = "node" ->
                       {NewRow(t, 1, ("name" :> 1) @@ ("collectionId" :> 1))}
                  [] OTHER -> {}]
  /\ nextId = [t \in Tables |-> CASE t = "collection" -> 3 [] t = "node" -> 2 [] OTHER -> 1]
  /\ xid = 0
  /\ wal = <<>>
  /\ emitted = {}
  /\ last = NoCall
  /\ lastGet = NoGet
  /\ todoCollection = NoCollection
  /\ calls = NoCalls
  /\ frame = NoFrame

SpecNodes == InitNodes /\ [][Next]_vars

----------------------------------------------------------------------------
(* Concurrent calls: the PUT and DELETE handlers of two clients, each      *)
(* followed through its Store transaction.  The transaction of a call is   *)
(* open from the statement that reads its txid; its write statement sees   *)
(* the rows committed when it runs (READ COMMITTED, the isolation level    *)
(* db.transaction asks for by default) and is committed with the callback. *)

\* the payloads of the updates made concurrently
RaceJsons == {("text" :> 1), ("user_id" :> "u1"), ("user_id" :> "u2")}

\* a PUT or DELETE handler up to the first statement of its transaction:
\* whereCondition is built before db.transaction; passed records whether a row
\* satisfied it when the transaction was opened
openCall(st, x0, session, res, op, id, json) ==
  LET table == TableOf(res)
      body == IF op = "PUT" THEN StripUpdate(table, json) ELSE <<>>
      accessResult == IF op = "PUT" THEN accessUpdate(res, session, id, body)
                      ELSE accessDelete(res, session, id)
      cond == whereCondition(table, id, accessResult)
  IN  [op |-> op, user |-> session.user.id, table |-> table, id |-> id, body |-> body,
       cond |-> cond, xid |-> x0 + 1,
       passed |-> \E r \in st[table] : Matches(table, cond, r)]


\* variant: the filter is checked when the transaction opens and the write
\* statement names the identity only
heldConditionChecked(c) == IF c.passed THEN eq(c.table, "id", c.id) ELSE c.cond

\* .where(whereCondition): the condition of the write statement
heldCondition(c) == c.cond

\* the write statement of an open call and the end of its transaction, over
\* the rows committed by then
closeCall(st, ids, c) ==
  LET w == IF c.op = "PUT" THEN update(st, ids, c.table, heldCondition(c), c.body)
           ELSE delete(st, ids, c.table, heldCondition(c))
  IN  found(transaction(c.xid - 1, w, "none"))

InitRace ==
  /\ config = "todos"
  /\ store = [t \in Tables |-> IF t = "todos" THEN {Owned(t, 1, "u1")} ELSE {}]
  /\ nextId = [t \in Tables |-> IF t = "todos" THEN 2 ELSE 1]
  /\ xid = 0
  /\ wal = <<>>
  /\ emitted = {}
  /\ last = NoCall
  /\ lastGet = NoGet
  /\ todoCollection = NoCollection
  /\ calls = NoCalls
  /\ frame = NoFrame

\* client k calls PUT or DELETE: the handler answers at once when it returns
\* before db.transaction, and opens its transaction otherwise
BeginCall(k, op, session, id, json) ==
  LET a == IF op = "PUT"
           THEN putHandler(store, nextId, xid, session, config, id, json, "none")
           ELSE deleteHandler(store, nextId, xid, session, config, id, "none")
  IN  /\ calls[k] = NoOpen
      /\ IF a.t.opened = 0
         THEN /\ Commit(op, config, session, id, a)
              /\ calls' = calls
         ELSE /\ xid < MaxTx
              /\ xid' = xid + 1
              /\ calls' = [calls EXCEPT ![k] = openCall(store, xid, session, config, op, id, json)]
              /\ UNCHANGED <<store, nextId, wal, last>>
      /\ UNCHANGED <<config, emitted, lastGet, todoCollection, frame>>

\* the write statement of the call of client k runs and its transaction commits
FinishCall(k) ==
  LET c == calls[k]
      a == closeCall(store, nextId, c)
      t == a.t
      changes == {Event(c.table, t.operation, r, t.wroteIn) @@ [reply |-> t.txid] :
                    r \in t.returning}
  IN  /\ c # NoOpen
      /\ store' = IF t.ok THEN [store EXCEPT ![c.table] = t.rows] ELSE store
      /\ wal' = wal \o SetToSeq(changes)
      /\ last' = [op |-> c.op, res |-> config, user |-> c.user, id |-> c.id,
                  status |-> a.status, message |-> a.message,
                  txid |-> IF a.status = OK THEN t.txid ELSE "",
                  item |-> IF a.status = OK THEN t.returning ELSE {},
                  opened |-> t.opened, readIn |-> t.readIn, wroteIn |-> t.wroteIn]
      /\ calls' = [calls EXCEPT ![k] = NoOpen]
      /\ UNCHANGED <<config, nextId, xid, emitted, lastGet, todoCollection, frame>>

NextRace ==
  \/ \E k \in Clients, s \in Sessions, op \in {"PUT", "DELETE"}, id \in Ids, j \in RaceJsons :
       BeginCall(k, op, s, id, j)
  \/ \E k \in Clients : FinishCall(k)
  \/ FeedEmit

SpecRace == InitRace /\ [][NextRace]_vars

----------------------------------------------------------------------------
(* lib/collections.ts and routes/_authenticated/index.tsx: the synced     *)
(* collection of todos and the functions of the page that mutate it        *)

MaxMutations == 2   \* the page submits at most this many mutations
MaxPreloads == 2    \* the route loader runs at most this many times

\* the user of the client's session
ClientUser == "u1"

\* Math.floor(Math.random() * 100000): two of its values
ClientIds == {4, 7}

\* newTodoText.trim(), by its length
ClientTexts == {1, MaxTextLen + 1}

\* shapeOptions.params of the subscription
shapeParams == <<[key |-> "table", value |-> "todos"], [key |-> "user_id", value |-> ClientUser]>>


\* variant: the rows are keyed by their text
getKeyByText(item) == item["text"]

getKey(item) == item["id"]

\* the local mapping key -> row, as the set of its rows
upsert(rows, row) == {r \in rows : getKey(r) # getKey(row)} \cup {row}
remove(rows, key) == {r \in rows : getKey(r) # key}
at(rows, key) == {r \in rows : getKey(r) = key}

NoResponse == [kind |-> "none", status |-> 0, txid |-> ""]

\* insert / update / delete of a collection: the mutation is applied to the
\* local mapping at once and recorded as a pending mutation.  A pending entry
\* is one client transaction: original and modified are those of its first
\* mutation (transaction.mutations[0]), rest holds the rows of the others.
mutate(c, kind, key, original, modified) ==
  [c EXCEPT !.local = IF kind = "delete" THEN remove(@, key) ELSE upsert(@, modified),
            !.pending = Append(@, [n |-> c.submitted + 1, kind |-> kind, key |-> key,
                                   original |-> original, modified |-> modified,
                                   rest |-> <<>>,
                                   state |-> "created", response |-> NoResponse,
                                   received |-> FALSE, txid |-> ""]),
            !.submitted = @ + 1]

collectionInsert(c, x) == mutate(c, "insert", getKey(x), x, x)

\* insert([x, y]): one transaction that holds a mutation for each row
collectionInsertAll(c, xs) ==
  [mutate(c, "insert", getKey(xs[1]), xs[1], xs[1]) EXCEPT
     !.local = {r \in @ : \A j \in 2..Len(xs) : getKey(r) # getKey(xs[j])}
                 \cup {xs[j] : j \in 2..Len(xs)},
     !.pending[Len(c.pending) + 1].rest = Tail(xs)]

\* update(key, callback): the callback is handed a draft of the local row
draftOf(c, key) == CHOOSE r \in at(c.local, key) : TRUE

\* update(key, callback): modified is the draft as the callback left it
collectionUpdate(c, key, modified) == mutate(c, "update", key, draftOf(c, key), modified)

collectionDelete(c, key) ==
  LET row == CHOOSE r \in at(c.local, key) : TRUE
  IN  mutate(c, "delete", key, row, row)


\* variant: the row is shown only once the gateway has answered
addTodoAfterGateway(c, user, id, text) ==
  [mutate(c, "insert", id, [k \in Columns("todos") |->
                            CASE k = "user_id" -> user
                              [] k = "id" -> id
                              [] k = "text" -> text
                              [] k = "completed" -> FALSE],
          [k \in Columns("todos") |->
                            CASE k = "user_id" -> user
                              [] k = "id" -> id
                              [] k = "text" -> text
                              [] k = "completed" -> FALSE])
     EXCEPT !.local = c.local]

addTodo(c, user, id, text) ==
  collectionInsert(c, [k \in Columns("todos") |->
                         CASE k = "user_id" -> user
                           [] k = "id" -> id
                           [] k = "text" -> text
                           [] k = "completed" -> FALSE])


\* variant: the new value is computed from the row as last received from the
\* feed, not from the draft
toggleTodoFromSynced(c, todo) ==
  LET known == at(c.synced, todo["id"])
      base == IF known = {} THEN todo ELSE CHOOSE r \in known : TRUE
      draft == draftOf(c, todo["id"])
  IN  collectionUpdate(c, todo["id"], [draft EXCEPT !["completed"] = ~base["completed"]])

toggleTodo(c, todo) ==
  LET draft == draftOf(c, todo["id"])
  IN  collectionUpdate(c, todo["id"], [draft EXCEPT !["completed"] = ~@])

deleteTodo(c, id) == collectionDelete(c, id)

\* the gateway call of a handler
onInsert(m) ==
  [op |-> "POST", id |-> 0,
   json |-> [k \in {"user_id", "text", "completed"} |-> m.modified[k]]]

onUpdate(m) ==
  [op |-> "PUT", id |-> m.modified["id"],
   json |-> [k \in {"text", "completed"} |-> m.modified[k]]]

onDelete(m) == [op |-> "DELETE", id |-> m.original["id"], json |-> <<>>]


\* variant: a failed call is not raised
mutationFnSwallow(result) == [throws |-> FALSE, txid |-> result.txid]

\* variant: the handler returns nothing
mutationFnNoTxid(result) ==
  IF result.kind = "response" /\ result.status \in 200..299
  THEN [throws |-> FALSE, txid |-> ""]
  ELSE [throws |-> TRUE, txid |-> ""]

\* the end of a handler: { txid } of an ok response, an Error otherwise; a
\* call the network fails rejects the handler as well
mutationFn(result) ==
  IF result.kind = "response" /\ result.status \in 200..299
  THEN [throws |-> FALSE, txid |-> result.txid]
  ELSE [throws |-> TRUE, txid |-> ""]

\* the gateway's answer to the call of a handler
gateway(st, ids, x0, session, m) ==
  CASE m.kind = "insert" ->
         postHandler(st, ids, x0, session, "todos", onInsert(m).json, "none")
    [] m.kind = "update" ->
         putHandler(st, ids, x0, session, "todos", onUpdate(m).id, onUpdate(m).json, "none")
    [] m.kind = "delete" ->
         deleteHandler(st, ids, x0, session, "todos", onDelete(m).id, "none")

callOf(m) ==
  CASE m.kind = "insert" -> onInsert(m).op [] m.kind = "update" -> onUpdate(m).op
    [] m.kind = "delete" -> onDelete(m).op

idOf(m) ==
  CASE m.kind = "insert" -> onInsert(m).id [] m.kind = "update" -> onUpdate(m).id
    [] m.kind = "delete" -> onDelete(m).id

\* preload(): the first call establishes the subscription; a caller is
\* suspended until the first snapshot is applied; once it is, a call returns
\* at once
preload(c, origin) ==
  CASE c.status = "idle" ->
         [c EXCEPT !.status = "loading", !.subscriptions = @ + 1, !.waiting = @ + 1,
                   !.origin = origin]
    [] c.status = "loading" -> [c EXCEPT !.waiting = @ + 1]
    [] c.status = "ready" -> [c EXCEPT !.returned = @ + 1]

\* the first full snapshot of the subscription is applied; the suspended
\* callers of preload() return
snapshot(c, rows) ==
  [c EXCEPT !.status = "ready", !.synced = rows, !.local = rows,
            !.returned = @ + c.waiting, !.waiting = 0]

\* a pending mutation is rejected: it leaves the pending set and its row is
\* recomputed from the last known authoritative state (which removes the row
\* of a pending insert, there being no authoritative row for it); the failure
\* is surfaced.  overtaken counts the rejections made while a later mutation
\* on the same row had already been sent.
reject(c, i) ==
  LET m == c.pending[i]
      keys == {m.key} \cup {getKey(m.rest[j]) : j \in 1..Len(m.rest)}
      known == {r \in c.synced : getKey(r) \in keys}
      later == {j \in i + 1..Len(c.pending) :
                  c.pending[j].key = m.key /\ c.pending[j].state = "sent"}
  IN  [c EXCEPT !.pending = SubSeq(@, 1, i - 1) \o SubSeq(@, i + 1, Len(@)),
                !.local = {r \in @ : getKey(r) \notin keys} \cup known,
                !.errors = @ + 1,
                !.overtaken = @ + (IF later # {} THEN 1 ELSE 0)]

\* the handler of pending mutation i ends with the response of its call
settle(c, i) ==
  LET r == mutationFn(c.pending[i].response)
  IN  IF r.throws THEN reject(c, i)
      ELSE [c EXCEPT !.pending[i].received = TRUE, !.pending[i].txid = r.txid]

\* the rows after a change event
apply(rows, e) == IF e.operation = "delete" THEN remove(rows, e.key) ELSE upsert(rows, e.row)

\* the outstanding pending mutations a change event confirms
matching(c, e) ==
  {i \in 1..Len(c.pending) :
     /\ c.pending[i].received
     /\ c.pending[i].txid = String(e.txid)
     /\ c.pending[i].key = e.key}

RECURSIVE without(_, _)
without(q, I) ==
  IF q = <<>> THEN <<>>
  ELSE without(SubSeq(q, 1, Len(q) - 1), I)
         \o (IF Len(q) \in I THEN <<>> ELSE <<q[Len(q)]>>)

\* reconciliation of an incoming change event
reconcile(c, e) ==
  [c EXCEPT !.synced = apply(@, e), !.local = apply(@, e),
            !.pending = without(@, matching(c, e))]

\* the events of a subscription: the changes of rows its where selects
inShape(origin, e) ==
  "where" \in DOMAIN origin =>
    \A a \in ParseWhere(origin["where"]) : e.row[a.column] = a.value

----------------------------------------------------------------------------
(* The state machine of one client: the page, its collection, the gateway  *)
(* and the change feed                                                     *)

InitClient ==
  /\ config = "todos"
  /\ store = [t \in Tables |->
                IF t = "todos"
                THEN {Owned(t, 1, ClientUser), Owned(t, 2, ClientUser), Owned(t, 3, "u2")}
                ELSE {}]
  /\ nextId = [t \in Tables |-> IF t = "todos" THEN 4 ELSE 1]
  /\ xid = 0
  /\ wal = <<>>
  /\ emitted = {}
  /\ last = NoCall
  /\ lastGet = NoGet
  /\ todoCollection = NoCollection
  /\ calls = NoCalls
  /\ frame = NoFrame


\* variant: the loader does not await preload()
PreloadNoAwait ==
  LET get == getHandler(store, SessionOf(ClientUser), config, shapeParams)
  IN  /\ todoCollection.waiting + todoCollection.returned < MaxPreloads
      /\ todoCollection' = [preload(todoCollection, get.origin) EXCEPT
                              !.returned = todoCollection.returned + 1, !.waiting = 0]
      /\ lastGet' = IF todoCollection.status = "idle" THEN get ELSE lastGet
      /\ UNCHANGED <<config, store, nextId, xid, wal, emitted, last, calls, frame>>

\* Route.loader: await todoCollection.preload()
Preload ==
  LET get == getHandler(store, SessionOf(ClientUser), config, shapeParams)
  IN  /\ todoCollection.waiting + todoCollection.returned < MaxPreloads
      /\ todoCollection' = preload(todoCollection, get.origin)
      /\ lastGet' = IF todoCollection.status = "idle" THEN get ELSE lastGet
      /\ UNCHANGED <<config, store, nextId, xid, wal, emitted, last, calls, frame>>

Snapshot ==
  /\ todoCollection.status = "loading"
  /\ todoCollection' = snapshot(todoCollection, shape(store, todoCollection.origin).rows)
  /\ UNCHANGED <<config, store, nextId, xid, wal, emitted, last, lastGet, calls, frame>>

\* the page is rendered once the loader has returned
Rendered == todoCollection.returned > 0 /\ todoCollection.submitted < MaxMutations

AddTodo(id, text) ==
  /\ Rendered
  /\ at(todoCollection.local, id) = {}
  /\ todoCollection' = addTodo(todoCollection, ClientUser, id, text)
  /\ UNCHANGED <<config, store, nextId, xid, wal, emitted, last, lastGet, calls, frame>>

ToggleTodo(todo) ==
  /\ Rendered
  /\ todoCollection' = toggleTodo(todoCollection, todo)
  /\ UNCHANGED <<config, store, nextId, xid, wal, emitted, last, lastGet, calls, frame>>

DeleteTodo(id) ==
  /\ Rendered
  /\ todoCollection' = deleteTodo(todoCollection, id)
  /\ UNCHANGED <<config, store, nextId, xid, wal, emitted, last, lastGet, calls, frame>>

\* variant: the handler calls the gateway again while its call is unanswered
SubmitRetry(i, session, net) ==
  LET m == todoCollection.pending[i]
      a == gateway(store, nextId, xid, session, m)
  IN  /\ ~m.received
      /\ IF net = "down"
         THEN /\ todoCollection' =
                   [todoCollection EXCEPT
                      !.pending[i].state = "sent",
                      !.pending[i].response = [kind |-> "error", status |-> 0, txid |-> ""]]
              /\ UNCHANGED <<store, nextId, xid, wal, last>>
         ELSE /\ Commit(callOf(m), "todos", session, idOf(m), a)
              /\ todoCollection' =
                   [todoCollection EXCEPT
                      !.pending[i].state = "sent",
                      !.pending[i].response =
                         [kind |-> "response", status |-> a.status,
                          txid |-> IF a.status = OK THEN a.t.txid ELSE ""]]
      /\ UNCHANGED <<config, emitted, lastGet, calls, frame>>

\* the handler of pending mutation i calls the gateway; the network may fail
\* the call before it reaches the gateway
Submit(i, session, net) ==
  LET m == todoCollection.pending[i]
      a == gateway(store, nextId, xid, session, m)
  IN  /\ m.state = "created"
      /\ IF net = "down"
         THEN /\ todoCollection' =
                   [todoCollection EXCEPT
                      !.pending[i].state = "sent",
                      !.pending[i].response = [kind |-> "error", status |-> 0, txid |-> ""]]
              /\ UNCHANGED <<store, nextId, xid, wal, last>>
         ELSE /\ Commit(callOf(m), "todos", session, idOf(m), a)
              /\ todoCollection' =
                   [todoCollection EXCEPT
                      !.pending[i].state = "sent",
                      !.pending[i].response =
                         [kind |-> "response", status |-> a.status,
                          txid |-> IF a.status = OK THEN a.t.txid ELSE ""]]
      /\ UNCHANGED <<config, emitted, lastGet, calls, frame>>

\* the response of the call of pending mutation i reaches its handler
Receive(i) ==
  /\ todoCollection.pending[i].state = "sent"
  /\ ~todoCollection.pending[i].received
  /\ todoCollection' = settle(todoCollection, i)
  /\ UNCHANGED <<config, store, nextId, xid, wal, emitted, last, lastGet, calls, frame>>

\* the change feed emits its oldest change; the subscription receives it when
\* its where selects the row
Deliver ==
  /\ wal # <<>>
  /\ todoCollection.status = "ready"
  /\ emitted' = {Head(wal)}
  /\ wal' = Tail(wal)
  /\ todoCollection' = IF inShape(todoCollection.origin, Head(wal))
                       THEN reconcile(todoCollection, Head(wal))
                       ELSE todoCollection
  /\ UNCHANGED <<config, store, nextId, xid, last, lastGet, calls, frame>>

NextClient ==
  \/ Preload
  \/ Snapshot
  \/ \E id \in ClientIds, text \in ClientTexts : AddTodo(id, text)
  \/ \E todo \in todoCollection.local : ToggleTodo(todo)
  \/ \E todo \in todoCollection.local : DeleteTodo(getKey(todo))
  \/ \E i \in 1..Len(todoCollection.pending), s \in {SessionOf(ClientUser), NullSession},
        net \in {"ok", "down"} : Submit(i, s, net)
  \/ \E i \in 1..Len(todoCollection.pending) : Receive(i)
  \/ Deliver

SpecClient == InitClient /\ [][NextClient]_vars

\* The client under the scheduling of its event loop and a fair change feed:
\* a handler that was scheduled runs, a response on its way arrives, the first
\* snapshot arrives, and the feed hands over every change it holds.  What the
\* user does is under no obligation.
\* a created pending mutation waits for its handler to run
Scheduled ==
  \E i \in 1..Len(todoCollection.pending) : todoCollection.pending[i].state = "created"

\* the handler of some created pending mutation calls the gateway
SubmitAny ==
  \E i \in 1..MaxMutations,
     s \in {SessionOf(ClientUser), NullSession}, net \in {"ok", "down"} :
    i <= Len(todoCollection.pending) /\ Submit(i, s, net)

\* every task of the collection that can run does run: the first snapshot is
\* applied, a scheduled handler makes its call (weak fairness of SubmitAny,
\* which is enabled exactly when Scheduled holds), the response of a call
\* comes back, and the change feed keeps emitting
FairClient ==
  /\ WF_vars(Snapshot)
  /\ ([]<>(~Scheduled) \/ []<><<SubmitAny>>_vars)
  /\ WF_vars(\E i \in 1..MaxMutations :
                i <= Len(todoCollection.pending) /\ Receive(i))
  /\ WF_vars(Deliver)

SpecClientFair == SpecClient /\ FairClient

----------------------------------------------------------------------------
(* A caller of the collection that inserts two rows in one transaction     *)

\* todoCollection.insert([x, y]) with the rows addTodo makes
AddTodos(id, text, id2, text2) ==
  LET row(i, t) == [k \in Columns("todos") |->
                      CASE k = "user_id" -> ClientUser
                        [] k = "id" -> i
                        [] k = "text" -> t
                        [] k = "completed" -> FALSE]
  IN  /\ Rendered
      /\ id # id2
      /\ at(todoCollection.local, id) = {}
      /\ at(todoCollection.local, id2) = {}
      /\ todoCollection' = collectionInsertAll(todoCollection, <<row(id, text), row(id2, text2)>>)
      /\ UNCHANGED <<config, store, nextId, xid, wal, emitted, last, lastGet, calls, frame>>

NextBatch ==
  \/ Preload
  \/ Snapshot
  \/ \E id, id2 \in ClientIds, text, text2 \in ClientTexts : AddTodos(id, text, id2, text2)
  \/ \E todo \in todoCollection.local : DeleteTodo(getKey(todo))
  \/ \E i \in 1..Len(todoCollection.pending), s \in {SessionOf(ClientUser), NullSession},
        net \in {"ok", "down"} : Submit(i, s, net)
  \/ \E i \in 1..Len(todoCollection.pending) : Receive(i)
  \/ Deliver

SpecBatch == InitClient /\ [][NextBatch]_vars

----------------------------------------------------------------------------
(* Properties                                                              *)

\* the changes the feed holds or has emitted
Events == {wal[i] : i \in 1..Len(wal)} \cup emitted

\* a step taken by a POST, PUT or DELETE handler (the feed's output is left alone)
GatewayStep == emitted' = emitted /\ lastGet' = lastGet

OperationOf(op) ==
  CASE op = "POST" -> "insert" [] op = "PUT" -> "update" [] op = "DELETE" -> "delete"
    [] OTHER -> "none"

\* the change the last call committed
EventOfLast(e) ==
  /\ e.table = TableOf(config)
  /\ e.operation = OperationOf(last.op)
  /\ \E r \in last.item : e.key = r["id"] /\ e.row = r

\* C1: the txid of every successful create, update or delete equals the
\* transaction identifier of the change event the feed holds or has emitted for
\* the row and operation of that call.
C1_TxidMatchesFeedEvent ==
  /\ \A e \in Events : e.reply = String(e.txid)
  /\ last.status = OK =>
       \E e \in Events : EventOfLast(e) /\ last.txid = String(e.txid)

C1_Witness ==
  /\ last.status = OK
  /\ \E e \in emitted : EventOfLast(e) /\ e.reply = last.txid

DenyReason(op) ==
  CASE op = "POST" -> "Can only create projects in your organization"
    [] op = "DELETE" -> "Only admins can delete projects"
    [] OTHER -> ""

\* C2: a call whose access predicate raises answers 403 with the predicate's
\* reason, opens no Store transaction, adds, changes and removes no row and hands
\* no change to the feed; the delete predicate of projects raises for every
\* session that is not an admin.
C2_DenyTouchesNothing ==
  [][GatewayStep =>
       /\ last'.status = FORBIDDEN =>
            /\ last'.message = DenyReason(last'.op)
            /\ last'.opened = 0
            /\ UNCHANGED <<store, nextId, xid, wal>>
       /\ (config = "projects" /\ last'.op = "DELETE" /\ last'.user \in Users
             /\ RoleOf(last'.user) # "admin") => last'.status = FORBIDDEN]_vars

C2_Witness ==
  /\ last.status = FORBIDDEN
  /\ last.op = "DELETE"
  /\ \E r \in store["projects"] : r["id"] = last.id

\* the access filter the resource puts on an update or delete by user u
Filter(res, op, u, row) ==
  CASE res \in {"todos", "collections"} -> row["user_id"] = u
    [] res = "projects" /\ op = "PUT" ->
         row["org_id"] = OrgOf(u) /\ row["team_id"] = TeamOf(u)
    [] res = "projects" /\ op = "DELETE" -> row["org_id"] = OrgOf(u)

\* C3: an update or delete changes or removes a row only if the row has the
\* identity of the request and satisfies the access filter of the session; on
\* todos and collections the row is owned by the session's user.
C3_FilterConjoined ==
  [][(GatewayStep /\ last'.op \in {"PUT", "DELETE"}) =>
       \A r \in store[TableOf(config)] \ store'[TableOf(config)] :
         /\ r["id"] = last'.id
         /\ Filter(config, last'.op, last'.user, r)
         /\ config \in {"todos", "collections"} => r["user_id"] = last'.user]_vars

C3_Witness ==
  /\ config = "collections"
  /\ last.op = "DELETE"
  /\ last.status = NOT_FOUND
  /\ last.user \in Users
  /\ \E r \in store["collection"] : r["id"] = last.id /\ r["user_id"] # last.user

\* an authenticated session asks to update an existing todo it does not own
ForeignTodo(st, call) ==
  /\ config = "todos"
  /\ call.op = "PUT"
  /\ call.user \in Users
  /\ \E r \in st["todos"] : r["id"] = call.id /\ r["user_id"] # call.user

\* C4 (as stated): an update of an existing todo by an authenticated session that
\* does not own it answers 403, leaves the row unchanged and produces no feed
\* event (the payload being valid and the Store executing the transaction).
C4_Original ==
  [][(GatewayStep /\ ForeignTodo(store, last')
        /\ last'.status \notin {UNPROCESSABLE_ENTITY, INTERNAL_SERVER_ERROR}) =>
       /\ last'.status = FORBIDDEN
       /\ UNCHANGED <<store, wal>>]_vars

\* C4 (amended): an update of an existing todo by an authenticated session that
\* does not own it never answers 403 or 200: it answers 404, the answer of a
\* nonexistent row, unless the payload is invalid (422) or the Store rejects the
\* transaction (500); the row is unchanged and no change reaches the feed.
C4_ForeignUpdateNotFound ==
  [][(GatewayStep /\ ForeignTodo(store, last')) =>
       /\ last'.status \in {NOT_FOUND, UNPROCESSABLE_ENTITY, INTERNAL_SERVER_ERROR}
       /\ last'.opened = 0 => last'.status = UNPROCESSABLE_ENTITY
       /\ last'.item = {}
       /\ UNCHANGED <<store, wal>>]_vars

C4_Witness ==
  /\ ForeignTodo(store, last)
  /\ last.status = NOT_FOUND
  /\ last.opened = 1

\* C5 (as stated): the item of every successful create or update on todos or
\* collections is owned by the session that made the call.
C5_OwnerIsSession ==
  (config \in {"todos", "collections"} /\ last.op \in {"POST", "PUT"} /\ last.status = OK)
    => \A r \in last.item : r["user_id"] = last.user

\* the last value the client gave parameter k
Asked(k) == {i \in 1..Len(lastGet.client) : lastGet.client[i].key = k}

\* C6: on a resource with a row filter every authenticated subscription request
\* is sent upstream with the where parameter equal to the filter of the session,
\* whatever the client asked for, and on todos and collections every row the
\* subscription observes is owned by the session's user.
C6_FilterInjected ==
  (lastGet.user \in Users /\ HasSyncFilter(lastGet.res)) =>
    /\ lastGet.fetched
    /\ "where" \in DOMAIN lastGet.origin
    /\ lastGet.origin["where"] = syncFilter(lastGet.res, SessionOf(lastGet.user))
    /\ lastGet.res \in {"todos", "collections"} =>
         \A r \in lastGet.rows : r["user_id"] = lastGet.user

C6_Witness ==
  /\ lastGet.res = "todos"
  /\ lastGet.user = "u1"
  /\ \E i \in Asked("where") : lastGet.client[i].value = "user_id = 'u2'"
  /\ lastGet.rows # {}
  /\ \E r \in store["todos"] : r["user_id"] = "u2"

\* C7: the request sent upstream carries a parameter of the client only under
\* the keys live, table, handle, offset and cursor (with the last value the
\* client gave); every other parameter of the client, where and user_id
\* included, is dropped, and a where parameter sent upstream is the row filter.
C7_AllowListOnly ==
  \A k \in DOMAIN lastGet.origin :
    \/ /\ k \in {"live", "table", "handle", "offset", "cursor"}
       /\ Asked(k) # {}
       /\ lastGet.origin[k] =
            lastGet.client[CHOOSE i \in Asked(k) : \A j \in Asked(k) : j <= i].value
    \/ /\ k = "where"
       /\ HasSyncFilter(lastGet.res)
       /\ lastGet.origin[k] = syncFilter(lastGet.res, SessionOf(lastGet.user))

C7_Witness ==
  /\ lastGet.fetched
  /\ lastGet.res = "nodes"
  /\ Asked("where") # {}
  /\ Asked("user_id") # {}
  /\ DOMAIN lastGet.origin = {}

\* C8: a subscription request without a session answers 401 and sends nothing
\* upstream.
C8_NoSessionNoFetch ==
  (lastGet.res # "none" /\ lastGet.user \notin Users) =>
    /\ lastGet.status = UNAUTHORIZED
    /\ ~lastGet.fetched
    /\ lastGet.rows = {}

C8_Witness ==
  /\ lastGet.status = UNAUTHORIZED
  /\ Asked("table") # {}

\* C9: a create, update or delete that answers 401 or 422 opens no Store
\* transaction and changes no row; a call without a session answers 401 or 422.
C9_RejectedBeforeStore ==
  [][GatewayStep =>
       /\ last'.status \in {UNAUTHORIZED, UNPROCESSABLE_ENTITY} =>
            /\ last'.opened = 0
            /\ last'.txid = ""
            /\ UNCHANGED <<store, nextId, xid, wal>>
       /\ (last'.op # "none" /\ last'.user \notin Users) =>
            last'.status \in {UNAUTHORIZED, UNPROCESSABLE_ENTITY}]_vars

C9_Witness ==
  /\ last.status = UNPROCESSABLE_ENTITY
  /\ last.op = "PUT"
  /\ \E r \in store[TableOf(config)] : r["id"] = last.id

\* C10: a create, update or delete opens at most one Store transaction; its
\* write runs in the transaction its txid was read in; a success response
\* follows a committed write; and when the txid read or the write fails (500)
\* no row is changed, no change reaches the feed and no txid is answered.
C10_OneTransaction ==
  [][GatewayStep =>
       /\ last'.opened <= 1
       /\ last'.wroteIn # 0 => last'.readIn = last'.wroteIn
       /\ last'.status = OK => (last'.opened = 1 /\ last'.wroteIn # 0 /\ last'.txid # "")
       /\ last'.status = INTERNAL_SERVER_ERROR =>
            /\ last'.opened = 1
            /\ last'.txid = ""
            /\ last'.item = {}
            /\ UNCHANGED <<store, wal>>]_vars

C10_Witness ==
  /\ last.status = INTERNAL_SERVER_ERROR
  /\ last.readIn # 0
  /\ last.op = "PUT"
  /\ \E r \in store[TableOf(config)] : r["id"] = last.id

\* the rows of the router's table that hold identity id
Held(st, id) == {r \in st[TableOf(config)] : r["id"] = id}

\* C11: an update or delete of an identity no row holds never answers 200 and
\* answers 404 whenever its write statement ran; every 404 comes after one
\* Store transaction, carries no txid and no item, leaves every row as it was
\* and hands no change to the feed.
C11_MissingRowNotFound ==
  [][(GatewayStep /\ last'.op \in {"PUT", "DELETE"}) =>
       /\ Held(store, last'.id) = {} =>
            /\ last'.status # OK
            /\ last'.wroteIn # 0 => last'.status = NOT_FOUND
       /\ last'.status = NOT_FOUND =>
            /\ last'.opened = 1
            /\ last'.txid = ""
            /\ last'.item = {}
            /\ UNCHANGED <<store, nextId, wal>>]_vars

C11_Witness ==
  /\ last.op = "PUT"
  /\ last.status = NOT_FOUND
  /\ Held(store, last.id) = {}
  /\ store[TableOf(config)] # {}

\* C12: a delete that answers 200 answers with the row that held the identity
\* and removes it; a delete by a session the resource allows to delete the row
\* answers 200 unless the Store rejects the transaction; an identity that was
\* issued and is held by no row is never held again, so every later delete of
\* it answers 404 (401 without a session, 403 or 500 when the predicate or the
\* Store refuses) and never 200.
C12_DeleteOnce ==
  [][(GatewayStep /\ last'.op = "DELETE") =>
       /\ last'.status = OK =>
            /\ Held(store, last'.id) # {}
            /\ last'.item = Held(store, last'.id)
            /\ Held(store', last'.id) = {}
       /\ (last'.user \in Users /\ last'.status \notin {FORBIDDEN, INTERNAL_SERVER_ERROR}
             /\ \E r \in Held(store, last'.id) : Filter(config, "DELETE", last'.user, r))
            => last'.status = OK
       /\ Held(store, last'.id) = {} =>
            /\ last'.status \in {NOT_FOUND, UNAUTHORIZED, FORBIDDEN, INTERNAL_SERVER_ERROR}
            /\ last'.wroteIn # 0 => last'.status = NOT_FOUND]_vars
  /\ [][\A id \in 1..(nextId[TableOf(config)] - 1) :
          Held(store, id) = {} => Held(store', id) = {}]_vars

\* the second delete of an identity: the change of the first one is still with
\* the feed
C12_Witness ==
  /\ config = "todos"
  /\ last.op = "DELETE"
  /\ last.status = NOT_FOUND
  /\ last.user \in Users
  /\ \E e \in Events : e.operation = "delete" /\ e.key = last.id /\ e.row["user_id"] = last.user

\* C13: no two rows of a resource hold the same identity and every identity in
\* use lies below the identity sequence; a successful create answers the
\* identity the sequence stood at, which no row holds, and moves the sequence
\* past it; the sequence never goes back, whatever is deleted.
C13_IdentityNeverReused ==
  [][/\ \A t \in Tables : nextId'[t] >= nextId[t]
     /\ \A r1, r2 \in store'[TableOf(config)] :
          /\ r1["id"] < nextId'[TableOf(config)]
          /\ r1["id"] = r2["id"] => r1 = r2
     /\ (GatewayStep /\ last'.op = "POST" /\ last'.status = OK) =>
          \A r \in last'.item :
            /\ r["id"] = nextId[TableOf(config)]
            /\ Held(store, r["id"]) = {}
            /\ Held(store', r["id"]) = {r}
            /\ nextId'[TableOf(config)] > r["id"]]_vars

\* a create right after the row with the largest identity was deleted
C13_Witness ==
  /\ config = "todos"
  /\ last.op = "POST"
  /\ last.status = OK
  /\ \E r \in last.item :
       /\ r["id"] > 1
       /\ Held(store, r["id"] - 1) = {}
       /\ \E e \in Events : e.operation = "delete" /\ e.key = r["id"] - 1

\* the function of the page that ran in a step, if one did
PageStep == todoCollection'.submitted = todoCollection.submitted + 1

\* the pending mutation a page function has just recorded
Recorded == todoCollection'.pending[Len(todoCollection'.pending)]

\* C14: when insert, update or delete of the collection returns, the optimistic
\* effect is in the local view (the inserted x, the changed row, no row for a
\* delete), the mutation is recorded as pending and not yet sent, and no
\* gateway call has been made: the Store, the feed and the authoritative rows
\* of the collection are as before.
C14_OptimisticAtOnce ==
  [][PageStep =>
       /\ todoCollection'.pending = Append(todoCollection.pending, Recorded)
       /\ Recorded.state = "created"
       /\ Recorded.response = NoResponse
       /\ Recorded.kind = "insert" =>
            /\ Recorded.modified \in todoCollection'.local
            /\ Recorded.modified \notin todoCollection.local
       /\ Recorded.kind = "update" =>
            {r \in todoCollection'.local : r["id"] = Recorded.key} = {Recorded.modified}
       /\ Recorded.kind = "delete" =>
            {r \in todoCollection'.local : r["id"] = Recorded.key} = {}
       /\ todoCollection'.synced = todoCollection.synced
       /\ UNCHANGED <<store, nextId, xid, wal, emitted, last>>]_vars

C14_Witness ==
  /\ Len(todoCollection.pending) = 1
  /\ todoCollection.pending[1].kind = "insert"
  /\ todoCollection.pending[1].state = "created"
  /\ todoCollection.pending[1].modified \in todoCollection.local
  /\ todoCollection.pending[1].modified \notin todoCollection.synced
  /\ last = NoCall

\* the feed hands its oldest change to the subscription
DeliverStep == wal # <<>> /\ wal' = Tail(wal) /\ emitted' = {Head(wal)}

\* the change event of the write the gateway answered pending mutation m with
EventOf(m, e) ==
  /\ m.received
  /\ m.response.status = OK
  /\ m.response.txid = e.reply
  /\ OperationOf(callOf(m)) = e.operation

\* C15 (as stated): when the change event of a pending insert arrives, it
\* carries the identity the client gave the inserted row x, and the local view
\* holds the authoritative row under that identity.
C15_SameIdentity ==
  [][DeliverStep =>
       \A i \in 1..Len(todoCollection.pending) :
         (todoCollection.pending[i].kind = "insert"
            /\ EventOf(todoCollection.pending[i], Head(wal))) =>
           /\ Head(wal).key = todoCollection.pending[i].modified["id"]
           /\ Head(wal).row \in todoCollection'.local]_vars

\* the response of the call of pending mutation i reaches its handler
ReceiveStep(i) ==
  /\ wal' = wal
  /\ i <= Len(todoCollection.pending)
  /\ todoCollection.pending[i].state = "sent"
  /\ ~todoCollection.pending[i].received
  /\ \/ todoCollection'.pending = without(todoCollection.pending, {i})
     \/ /\ Len(todoCollection'.pending) = Len(todoCollection.pending)
        /\ todoCollection'.pending[i].received

\* the rows of the local view no pending mutation is about are the last known
\* authoritative ones
NoUnacceptedWrite(c) ==
  \A k \in {r["id"] : r \in c.local \cup c.synced} :
    (\A i \in 1..Len(c.pending) : c.pending[i].key # k) =>
      {r \in c.local : r["id"] = k} = {r \in c.synced : r["id"] = k}

\* C16: when the call of a pending mutation ends with a network error or a
\* response that is not a success, the handler raises: the mutation leaves the
\* pending set, its row is the last known authoritative row (no row for a
\* pending insert the feed brought no row for), no other row changes and the failure is surfaced; a success
\* response keeps the mutation pending with the answered txid.  A row no
\* pending mutation is about is always the last known authoritative row.
C16_RejectRestores ==
  [][/\ NoUnacceptedWrite(todoCollection')
     /\ \A i \in 1..MaxMutations + 1 :
          ReceiveStep(i) =>
            LET m == todoCollection.pending[i]
            IN  IF m.response.kind = "response" /\ m.response.status = OK
                THEN /\ Len(todoCollection'.pending) = Len(todoCollection.pending)
                     /\ todoCollection'.pending[i].txid = m.response.txid
                     /\ todoCollection'.errors = todoCollection.errors
                     /\ todoCollection'.local = todoCollection.local
                ELSE /\ todoCollection'.pending = without(todoCollection.pending, {i})
                     /\ todoCollection'.errors = todoCollection.errors + 1
                     /\ {r \in todoCollection'.local : r["id"] = m.key} =
                          {r \in todoCollection.synced : r["id"] = m.key}
                     /\ (m.kind = "insert" /\ m.modified \notin todoCollection.synced) =>
                          m.modified \notin todoCollection'.local
                     /\ {r \in todoCollection'.local : r["id"] # m.key} =
                          {r \in todoCollection.local : r["id"] # m.key}
                     /\ todoCollection'.synced = todoCollection.synced]_vars

\* a toggle the gateway answered 401 was rolled back
C16_Witness ==
  /\ todoCollection.errors = 1
  /\ todoCollection.submitted = 1
  /\ todoCollection.pending = <<>>
  /\ last.op = "PUT"
  /\ last.status = UNAUTHORIZED
  /\ todoCollection.local = todoCollection.synced
  /\ \E r \in todoCollection.local : r["id"] = last.id /\ ~r["completed"]

\* C17: when the change event of the write a pending mutation was answered with
\* arrives for the row of the mutation, exactly that mutation leaves the
\* pending set and the local view holds the event's row under the identity and
\* no other row under it (no row after a delete); the local view never holds
\* two rows under one identity; and the event, once handed over, is not handed
\* over again: no change left with the feed has its txid and row.
C17_ConfirmedOnce ==
  [][/\ \A r1, r2 \in todoCollection'.local : r1["id"] = r2["id"] => r1 = r2
     /\ DeliverStep =>
          /\ \A j \in 1..Len(wal') :
               ~(wal'[j].txid = Head(wal).txid /\ wal'[j].key = Head(wal).key)
          /\ \A i \in 1..Len(todoCollection.pending) :
               (EventOf(todoCollection.pending[i], Head(wal))
                  /\ todoCollection.pending[i].key = Head(wal).key) =>
                 /\ todoCollection'.pending = without(todoCollection.pending, {i})
                 /\ {r \in todoCollection'.local : r["id"] = Head(wal).key} =
                      (IF Head(wal).operation = "delete" THEN {} ELSE {Head(wal).row})
                 /\ {r \in todoCollection'.synced : r["id"] = Head(wal).key} =
                      {r \in todoCollection'.local : r["id"] = Head(wal).key}]_vars

\* a toggle was confirmed by its change event
C17_Witness ==
  /\ todoCollection.submitted = 1
  /\ todoCollection.errors = 0
  /\ todoCollection.pending = <<>>
  /\ \E e \in emitted :
       /\ e.operation = "update"
       /\ e.reply = last.txid
       /\ e.row["completed"]
       /\ e.row \in todoCollection.local

RowIds == {r["id"] : r \in todoCollection.local \cup store["todos"]}

\* no mutation on row k is pending and no change of it is still with the feed
Settled(k) ==
  /\ \A i \in 1..Len(todoCollection.pending) :
       todoCollection.pending[i].modified["id"] # k
  /\ \A j \in 1..Len(wal) : wal[j].key # k

\* C19: whatever the order the responses and change events of the mutations
\* arrive in, a row that no pending mutation is about and no undelivered change
\* is about has in the local view the value the Store holds for it (no row when
\* the Store holds none for the session), whether or not mutations on other
\* rows are still pending.
C19_RowsConverge ==
  todoCollection.status = "ready" =>
    \A k \in RowIds :
      Settled(k) =>
        {r \in todoCollection.local : r["id"] = k}
          = {r \in store["todos"] : r["id"] = k /\ r["user_id"] = ClientUser}

\* the later of two mutations on different rows was confirmed while the
\* earlier one is still awaiting its change event
C19_Witness ==
  /\ todoCollection.submitted = 2
  /\ todoCollection.errors = 0
  /\ Len(todoCollection.pending) = 1
  /\ todoCollection.pending[1].n = 1
  /\ todoCollection.pending[1].received
  /\ \E e \in emitted :
       /\ e.key # todoCollection.pending[1].key
       /\ e.operation = "update"
       /\ e.row \in todoCollection.local
       /\ e.row["completed"]

\* a call of preload() on a collection whose first snapshot is applied
PreloadAgain ==
  /\ todoCollection.status = "ready"
  /\ todoCollection'.returned = todoCollection.returned + 1

\* C20: preload() has returned only when the first snapshot of the
\* subscription is applied to the local view; the collection establishes at most
\* one subscription; a call made while the snapshot is awaited waits for the
\* same subscription, and a call made after it returns at once and changes
\* neither the local view nor anything else of the collection.
C20_PreloadBarrier ==
  [][/\ todoCollection'.returned > 0 => todoCollection'.status = "ready"
     /\ todoCollection'.subscriptions <= 1
     /\ todoCollection'.status # "ready" =>
          (todoCollection'.local = {} /\ todoCollection'.returned = 0)
     /\ (todoCollection.status = "loading" /\ todoCollection'.status = "ready") =>
          /\ todoCollection'.local = {r \in store["todos"] : r["user_id"] = ClientUser}
          /\ todoCollection'.returned = todoCollection.waiting
     /\ PreloadAgain =>
          /\ todoCollection' = [todoCollection EXCEPT !.returned = @ + 1]
          /\ UNCHANGED <<store, wal, emitted, last, lastGet>>]_vars

\* a second call of preload() returned on the one subscription, with a
\* mutation of the page still pending
C20_Witness ==
  /\ todoCollection.returned = 2
  /\ todoCollection.subscriptions = 1
  /\ todoCollection.status = "ready"
  /\ Len(todoCollection.pending) = 1
  /\ lastGet.status = OK

----------------------------------------------------------------------------
(* The nodes resource                                                      *)

\* the user the collection of a node row belongs to
HolderOf(st, n) == {c["user_id"] : c \in {x \in st["collection"] : x["id"] = n["collectionId"]}}

ParentOf(st, id) == {n["parentId"] : n \in {x \in st["node"] : x["id"] = id}} \ {0}

\* the identities reached from S by following at most k more parent references
RECURSIVE AncestorsUpTo(_, _, _)
AncestorsUpTo(st, S, k) ==
  IF k = 0 THEN S
  ELSE AncestorsUpTo(st, S \cup UNION {ParentOf(st, i) : i \in S}, k - 1)

Ancestors(st, id) == AncestorsUpTo(st, ParentOf(st, id), Cardinality(st["node"]))

----------------------------------------------------------------------------
(* Reconciliation and the life of a pending mutation                       *)

\* the outstanding pending mutations on the row of change event e whose
\* handler was returned the txid of e by the gateway
Confirms(c, e) ==
  {i \in 1..Len(c.pending) :
     /\ c.pending[i].received
     /\ c.pending[i].response.txid = String(e.txid)
     /\ c.pending[i].key = e.key}

\* C22: on each change event the subscription receives: when its txid is the
\* txid the gateway returned for an outstanding pending mutation on the same
\* row, the local view holds the event's row for that identity (no row after
\* a delete) and exactly that mutation leaves the pending set; otherwise the
\* event is applied to the local view as it is and the pending set is left
\* alone.  The rows of other identities are never touched.
C22_MatchOrApply ==
  [][(DeliverStep /\ todoCollection.status = "ready"
        /\ inShape(todoCollection.origin, Head(wal))) =>
       LET e == Head(wal)
           M == Confirms(todoCollection, e)
       IN  /\ Cardinality(M) <= 1
           /\ todoCollection'.local = apply(todoCollection.local, e)
           /\ {r \in todoCollection'.local : r["id"] = e.key} =
                (IF e.operation = "delete" THEN {} ELSE {e.row})
           /\ M # {} => todoCollection'.pending = without(todoCollection.pending, M)
           /\ M = {} => todoCollection'.pending = todoCollection.pending]_vars

\* the change event of an accepted insert arrived under the identity the Store
\* gave the row, which is not the row of the pending insert: it was applied as
\* it is and the insert is still pending
C22_Witness ==
  /\ Len(todoCollection.pending) = 1
  /\ todoCollection.pending[1].kind = "insert"
  /\ todoCollection.pending[1].received
  /\ \E e \in emitted :
       /\ e.operation = "insert"
       /\ String(e.txid) = todoCollection.pending[1].txid
       /\ e.key # todoCollection.pending[1].key
       /\ e.row \in todoCollection.local
       /\ todoCollection.pending[1].modified \in todoCollection.local

\* the numbers of the pending mutations of a collection, and the entry of one
Ns(c) == {c.pending[i].n : i \in 1..Len(c.pending)}
Entry(c, n) == c.pending[CHOOSE i \in 1..Len(c.pending) : c.pending[i].n = n]

\* C23: a pending mutation is recorded as created, goes from created to sent
\* when its handler calls the gateway (once: a sent mutation keeps its call),
\* and leaves the pending set from sent only, either rejected (the failure is
\* surfaced) or confirmed (by a change event), never both; a mutation that
\* has left the pending set is never in it again.
C23_PendingLifecycle ==
  [][LET c == todoCollection
         d == todoCollection'
     IN  /\ \A i, j \in 1..Len(d.pending) : d.pending[i].n = d.pending[j].n => i = j
         /\ \A n \in Ns(c) : n <= c.submitted
         /\ \A n \in Ns(d) \ Ns(c) :
              /\ n = c.submitted + 1
              /\ d.submitted = n
              /\ Entry(d, n).state = "created"
         /\ \A n \in Ns(c) \cap Ns(d) :
              \/ /\ Entry(c, n).state = "created"
                 /\ Entry(d, n).state \in {"created", "sent"}
              \/ /\ Entry(c, n).state = "sent"
                 /\ Entry(d, n).state = "sent"
                 /\ Entry(d, n).response = Entry(c, n).response
         /\ Cardinality(Ns(c) \ Ns(d)) <= 1
         /\ \A n \in Ns(c) \ Ns(d) :
              LET rejected == d.errors = c.errors + 1 /\ wal' = wal
                  confirmed == DeliverStep /\ d.errors = c.errors /\ Entry(c, n).received
              IN  /\ Entry(c, n).state = "sent"
                  /\ rejected \/ confirmed
                  /\ ~(rejected /\ confirmed)]_vars

\* of two mutations one was rejected and the other confirmed by its change event
C23_Witness ==
  /\ todoCollection.submitted = 2
  /\ todoCollection.errors = 1
  /\ todoCollection.pending = <<>>
  /\ last.status = OK
  /\ \E e \in emitted : e.reply = last.txid /\ e.operation # "insert"

----------------------------------------------------------------------------
(* Concurrent calls                                                        *)

\* the transaction of the open call of client k commits
FinishStep(k) == calls[k] # NoOpen /\ calls'[k] = NoOpen

\* C24: the access filter of an update or delete is evaluated with the write,
\* on the rows committed when the write statement runs: whatever transactions
\* committed while the call was open, every row the call changes or removes
\* has, at the time of the write, the identity of the request and the
\* session's user as its user_id.
C24_FilterAtWrite ==
  [][\A k \in Clients :
       FinishStep(k) =>
         \A r \in store["todos"] \ store'["todos"] :
           /\ r["id"] = calls[k].id
           /\ r["user_id"] = calls[k].user]_vars

\* an update of u1 whose transaction was opened while u1 owned the row was
\* answered 404 after a transaction opened later had given the row to u2
C24_Witness ==
  /\ last.op = "PUT"
  /\ last.status = NOT_FOUND
  /\ last.user = "u1"
  /\ last.id = 1
  /\ last.readIn = 1
  /\ \E r \in store["todos"] : r["id"] = 1 /\ r["user_id"] = "u2"
  /\ \E e \in Events : e.txid = 2 /\ e.key = 1 /\ e.row["user_id"] = "u2"

\* C25: when the earlier of two pending mutations on a row is rejected after
\* the later one was sent, then, once no mutation on the row is pending and no
\* change of it is still with the feed, the local value of the row is the
\* value the Store holds for it (no row when the Store holds none): the later
\* accepted write is kept and the rejected one does not come back.  The
\* rejected mutation is resolved when its response is received: no pending
\* mutation has received a failure.
C25_LateRejectConverges ==
  /\ \A i \in 1..Len(todoCollection.pending) :
       todoCollection.pending[i].received =>
         /\ todoCollection.pending[i].response.kind = "response"
         /\ todoCollection.pending[i].response.status = OK
  /\ todoCollection.overtaken > 0 =>
       \A k \in RowIds :
         Settled(k) =>
           /\ {r \in todoCollection.local : r["id"] = k}
                = {r \in store["todos"] : r["id"] = k /\ r["user_id"] = ClientUser}
           /\ {r \in todoCollection.synced : r["id"] = k}
                = {r \in todoCollection.local : r["id"] = k}

\* the first of two toggles of a row was rejected after the second had been
\* sent; the second was accepted and confirmed, and the row is the Store's
C25_Witness ==
  /\ todoCollection.overtaken = 1
  /\ todoCollection.errors = 1
  /\ todoCollection.submitted = 2
  /\ todoCollection.pending = <<>>
  /\ wal = <<>>
  /\ last.op = "PUT"
  /\ last.status = OK
  /\ \E e \in emitted :
       /\ e.reply = last.txid
       /\ e.key = last.id
       /\ e.row \in todoCollection.local
       /\ e.row \in store["todos"]

----------------------------------------------------------------------------
(* The subscription response                                               *)

\* C27: the response of a subscription call that was sent upstream has the
\* status, the status text and the body of the upstream response, and its
\* headers are the upstream headers without content-encoding and
\* content-length: no other header is removed, none is added and none has
\* another value.
C27_VerbatimButFraming ==
  lastGet.fetched =>
    /\ frame.response.status = frame.upstream.status
    /\ frame.response.status = lastGet.status
    /\ frame.response.statusText = frame.upstream.statusText
    /\ frame.response.body = frame.upstream.body
    /\ DOMAIN frame.response.headers =
         DOMAIN frame.upstream.headers \ {"content-encoding", "content-length"}
    /\ \A h \in DOMAIN frame.response.headers :
         frame.response.headers[h] = frame.upstream.headers[h]

\* an upstream response with all four headers and rows was passed on
C27_Witness ==
  /\ lastGet.fetched
  /\ lastGet.status = OK
  /\ DOMAIN frame.upstream.headers = HeaderNames
  /\ DOMAIN frame.response.headers = {"content-type", "electric-offset"}
  /\ frame.response.body # {}
  /\ frame.upstream.statusText = ""

\* C28: a subscription request to the endpoint of a resource is sent upstream
\* for the table of that resource only, whatever table parameter the client
\* gives; the nodes endpoint streams no row of todos or collections owned by
\* another user.
C28_OwnTableOnly ==
  lastGet.fetched =>
    /\ "table" \in DOMAIN lastGet.origin =>
         lastGet.origin["table"] = TableOf(lastGet.res)
    /\ lastGet.res = "nodes" =>
         \A r \in lastGet.rows :
           "user_id" \in DOMAIN r => r["user_id"] = lastGet.user

----------------------------------------------------------------------------
(* The gateway calls of a client transaction                               *)

\* the rows of the mutations of a client transaction
mutationsOf(m) == <<m.modified>> \o m.rest

\* the gateway calls the handler of a client transaction makes
callsOf(m) ==
  CASE m.kind = "insert" -> <<onInsert(m)>>
    [] m.kind = "update" -> <<onUpdate(m)>>
    [] m.kind = "delete" -> <<onDelete(m)>>

----------------------------------------------------------------------------
(* Confirmation of accepted mutations                                      *)

\* the gateway answered the call of pending mutation n with a success
\* pending mutation n is sent, its handler has returned the txid of the 200
\* response of its call, and the change event carrying that txid is still to
\* be emitted by the change feed
Accepted(n) ==
  \E i \in 1..Len(todoCollection.pending) :
    /\ todoCollection.pending[i].n = n
    /\ todoCollection.pending[i].state = "sent"
    /\ todoCollection.pending[i].received
    /\ todoCollection.pending[i].response.status = OK
    /\ \E j \in 1..Len(wal) : String(wal[j].txid) = todoCollection.pending[i].txid

\* C30: under a fair change feed every pending mutation whose gateway call
\* succeeded is eventually confirmed: once its handler holds the returned
\* txid and the change event carrying it is on its way, the event is delivered
\* on the collection's own subscription and the mutation leaves the pending
\* set; it does not stay sent forever.
C30_AcceptedEventuallyConfirmed ==
  \A n \in 1..MaxMutations : Accepted(n) ~> (n \notin Ns(todoCollection))

====
